---- MODULE Spec2Model ----
(***************************************************************************)
(* A model of ini.h, a single-header INI parser in C99.                    *)
(*                                                                         *)
(* Bytes are one-character strings, buffers are sequences of bytes and a   *)
(* string view (inistrv_t) is a record [buf, off, len]: buf names the      *)
(* buffer the view points into, off is the 0-based offset of its first     *)
(* byte and len its length.                                                *)
(***************************************************************************)
EXTENDS Integers, Sequences, FiniteSets, TLC

VARIABLES
    input,      \* the caller's buffer handed to ini_parse_buf / ini_parse_str
    options,    \* the caller's iniopts_t (or NoOptions for a NULL pointer)
    text,       \* ini_t.text: [null |-> TRUE/FALSE, data |-> bytes]
    tables,     \* ini_t.tables: sequence of initable_t
    cur,        \* ini__istream_t: in.cur - in.start
    table,      \* ini__add_table: index of the table whose body is being read
    pc,         \* position in the program
    result,     \* what the last call of the public API returned
    opened,     \* history: the table the last accepted header opened
    fp          \* ini_parse: the FILE handle and what was done with it

vars == <<input, options, text, tables, cur, table, pc, result, opened, fp>>

----------------------------------------------------------------------------
(* Bounds of the model *)

\* longest document, in fragments (see Fragments)
MaxFrags == 4
\* longest raw value text of the accessor specification, in bytes
MaxValLen == 4
\* largest destination buffer handed to ini_to_str, in bytes
MaxBufLen == 4
\* largest destination array handed to ini_to_array, in elements
MaxArrLen == 2
\* longest document of the scanner specification, in fragments
MaxScanFrags == 3

----------------------------------------------------------------------------
(* Bytes and buffers *)

NUL == "NUL"

\* <ctype.h> isspace in the C locale (the vertical tab has no TLA+ escape)
isspace(c) == c \in {" ", "\t", "\n", "\r", "\f"}

\* the string literals of the program and of its callers
Literals ==
    [ root  |-> <<"r", "o", "o", "t">>,
      a     |-> <<"a">>,
      b     |-> <<"b">>,
      k     |-> <<"k">>,
      x     |-> <<"x">>,
      empty |-> <<>> ]

\* a local variable: init is evaluated once and rest is what follows with
\* the variable holding that value
Local(init, rest(_)) == CHOOSE r \in {rest(v) : v \in {init}} : TRUE

\* the bytes a view's buf field points into
mem(buf) == IF buf = "text" THEN text.data ELSE Literals[buf]

\* view.buf[i]
at(view, i) == mem(view.buf)[view.off + i + 1]

\* the bytes a view denotes
bytes(view) == [i \in 1..view.len |-> at(view, i - 1)]

\* the bytes a backslash escapes
IsEscapable(c) == c = ";" \/ c = "#"

\* *in.cur, for a cursor that is not finished
peek(c) == text.data[c + 1]

\* in.len: the text without the terminator ini__strdup appends
textlen == IF text.null THEN 0 ELSE Len(text.data) - 1

----------------------------------------------------------------------------
(* String view helpers *)

strv__is_empty(view) == view.len = 0

strv__from_str(str) == [buf |-> str, off |-> 0, len |-> Len(Literals[str])]

strv__sub(view, from, to) ==
    LET to1   == IF to > view.len THEN view.len ELSE to
        from1 == IF from > to1 THEN to1 ELSE from
    IN  [buf |-> view.buf, off |-> view.off + from1, len |-> to1 - from1]

\* the "trim left" loop: the index it stops at
RECURSIVE strv__trim_left(_, _)
strv__trim_left(view, i) ==
    IF i < view.len /\ isspace(at(view, i))
    THEN strv__trim_left(view, i + 1)
    ELSE i

\* the "trim right" loop: the index it stops at
RECURSIVE strv__trim_right(_, _)
strv__trim_right(view, i) ==
    IF i >= 0 /\ isspace(at(view, i))
    THEN strv__trim_right(view, i - 1)
    ELSE i

strv__trim(view) ==
    IF strv__is_empty(view) THEN view
    ELSE LET l   == strv__trim_left(view, 0)
             out == [buf |-> view.buf, off |-> view.off + l, len |-> view.len - l]
         IN  IF strv__is_empty(out) THEN view
             ELSE LET r == strv__trim_right(view, view.len - 1)
                  IN  [out EXCEPT !.len = out.len - ((view.len - 1) - r)]

\* 0 when equal, as memcmp after the length test
strv__cmp(a, b) ==
    IF a.len < b.len THEN -1
    ELSE IF a.len > b.len THEN 1
    ELSE IF bytes(a) = bytes(b) THEN 0 ELSE 2

----------------------------------------------------------------------------
(* String stream helpers *)

istr__is_finished(c) == c >= textlen

RECURSIVE istr__skip_whitespace(_)
istr__skip_whitespace(c) ==
    IF c < textlen /\ isspace(peek(c)) THEN istr__skip_whitespace(c + 1) ELSE c

RECURSIVE istr__ignore(_, _)
istr__ignore(c, delim) ==
    IF c < textlen /\ peek(c) # delim THEN istr__ignore(c + 1, delim) ELSE c

\* a skip that does not test for the end of the text
istr__skip_unchecked(c) == c + 1

istr__skip(c) == IF ~istr__is_finished(c) THEN c + 1 ELSE c

\* the view and the cursor left behind
istr__get_view(c, delim) ==
    LET c1 == istr__ignore(c, delim)
    IN  [view |-> [buf |-> "text", off |-> c, len |-> c1 - c], cur |-> c1]

----------------------------------------------------------------------------
(* Options *)

\* a NULL options pointer; a caller's iniopts_t has null |-> FALSE
NoOptions == [null |-> TRUE,
              merge_duplicate_tables |-> FALSE,
              override_duplicate_keys |-> FALSE,
              key_value_divider |-> NUL]

ini__default_opts == [merge_duplicate_tables |-> FALSE,
                      override_duplicate_keys |-> FALSE,
                      key_value_divider |-> "="]

ini__set_default_opts(o) ==
    IF o.null THEN ini__default_opts
    ELSE [merge_duplicate_tables |->
              IF o.merge_duplicate_tables THEN o.merge_duplicate_tables
              ELSE ini__default_opts.merge_duplicate_tables,
          override_duplicate_keys |->
              IF o.override_duplicate_keys THEN o.override_duplicate_keys
              ELSE ini__default_opts.override_duplicate_keys,
          key_value_divider |->
              IF o.key_value_divider # NUL THEN o.key_value_divider
              ELSE ini__default_opts.key_value_divider]

\* the opts local of ini__parse_internal
opts == ini__set_default_opts(options)

----------------------------------------------------------------------------
(* Lookup.  A table or a value pointer is the 1-based index of the element *)
(* in its vector, 0 for NULL.                                              *)

RECURSIVE ini__find_table_from(_, _, _)
ini__find_table_from(tabs, name, i) ==
    IF i > Len(tabs) THEN 0
    ELSE IF strv__cmp(tabs[i].name, name) = 0 THEN i
    ELSE ini__find_table_from(tabs, name, i + 1)

ini__find_table(tabs, name) ==
    IF strv__is_empty(name) THEN 0 ELSE ini__find_table_from(tabs, name, 1)

\* a lookup that scans from the back and so returns the last match
ini__find_value_from_last(values, key, i) ==
    LET M == {j \in i..Len(values) : strv__cmp(values[j].key, key) = 0}
    IN  IF M = {} THEN 0 ELSE CHOOSE j \in M : \A m \in M : m <= j

RECURSIVE ini__find_value_from(_, _, _)
ini__find_value_from(values, key, i) ==
    IF i > Len(values) THEN 0
    ELSE IF strv__cmp(values[i].key, key) = 0 THEN i
    ELSE ini__find_value_from(values, key, i + 1)

ini__find_value(values, key) ==
    IF strv__is_empty(key) THEN 0 ELSE ini__find_value_from(values, key, 1)

\* INI_ROOT is a NULL name; ctx->tables is NULL while the vector is empty
INI_ROOT == "INI_ROOT"

ini_get_table(tabs, name) ==
    IF name = INI_ROOT THEN (IF Len(tabs) = 0 THEN 0 ELSE 1)
    ELSE ini__find_table(tabs, strv__from_str(name))

\* ctx is a table index, 0 for NULL
ini_get(tabs, ctx, key) ==
    IF ctx # 0 THEN ini__find_value(tabs[ctx].values, strv__from_str(key)) ELSE 0

----------------------------------------------------------------------------
(* Parser *)

\* NULL for an empty source, else len bytes and the terminator
ini__strdup(src, len) ==
    IF len = 0 THEN [null |-> TRUE, data |-> <<>>]
    ELSE [null |-> FALSE, data |-> SubSeq(src, 1, len) \o <<NUL>>]

RECURSIVE strlen_from(_, _)
strlen_from(str, i) ==
    IF i >= Len(str) \/ str[i + 1] = NUL THEN i ELSE strlen_from(str, i + 1)

strlen(str) == strlen_from(str, 0)

\* a comment scan that forgets the backslash escape
RECURSIVE ini__inline_comment_noescape(_, _)
ini__inline_comment_noescape(val, i) ==
    IF i >= val.len THEN val.len
    ELSE IF at(val, i) = "#" \/ at(val, i) = ";" THEN i
    ELSE ini__inline_comment_noescape(val, i + 1)

\* the "find inline comments" loop: the length the value is cut to
RECURSIVE ini__inline_comment(_, _)
ini__inline_comment(val, i) ==
    IF i >= val.len THEN val.len
    ELSE IF at(val, i) = "#" \/ at(val, i) = ";"
         THEN IF i > 0 /\ at(val, i - 1) = "\\"
              THEN ini__inline_comment(val, i + 1)
              ELSE i
         ELSE ini__inline_comment(val, i + 1)

\* ini__add_value, the scanning part: the trimmed key, the value cut at its
\* inline comment, and the cursor after the line (or, for an empty key, where
\* the early return leaves it)
ini__add_value_scan(c) ==
    Local(istr__get_view(c, opts.key_value_divider), LAMBDA k :
    Local(strv__trim(k.view), LAMBDA key :
    Local(istr__get_view(istr__skip(k.cur), "\n"), LAMBDA v :
    Local(strv__trim(v.view), LAMBDA val0 :
        IF strv__is_empty(key)
        THEN [accepted |-> FALSE, key |-> key, value |-> val0, cur |-> v.cur]
        ELSE [accepted |-> TRUE,
              key      |-> key,
              value    |-> [val0 EXCEPT !.len = ini__inline_comment(val0, 0)],
              cur      |-> IF ~istr__is_finished(v.cur)
                           THEN istr__skip(v.cur) ELSE v.cur]))))

\* a store that ignores override_duplicate_keys
ini__add_value_store_append(values, key, val) ==
    Append(values, [key |-> key, value |-> val])

\* ini__add_value, the storing part: the entry vector after key = val
ini__add_value_store(values, key, val) ==
    LET new_val == IF opts.override_duplicate_keys
                   THEN ini__find_value(values, key) ELSE 0
    IN  IF new_val # 0
        THEN [values EXCEPT ![new_val].value = val]
        ELSE Append(values, [key |-> key, value |-> val])

\* ini__add_value(table t, in at c): the tables and the cursor it leaves
ini__add_value(tabs, t, c) ==
    LET line == ini__add_value_scan(c)
    IN  [tables |-> IF line.accepted
                    THEN [tabs EXCEPT ![t].values =
                             ini__add_value_store(tabs[t].values, line.key, line.value)]
                    ELSE tabs,
         cur |-> line.cur]

\* the table the header at hand resolves to among tabs, 0 when it is new
ini__header_table(tabs, name) ==
    IF opts.merge_duplicate_tables THEN ini__find_table(tabs, name) ELSE 0

\* ini__add_table up to its body loop: opened is FALSE when it returned early
ini__add_table(tabs, c) ==
    LET c1    == istr__skip(c)
        n     == istr__get_view(c1, "]")
        name  == n.view
        c2    == istr__skip(n.cur)
        found == ini__header_table(tabs, name)
    IN  IF strv__is_empty(name)
        THEN [opened |-> FALSE, tables |-> tabs, table |-> 0, cur |-> c2]
        ELSE [opened |-> TRUE,
              tables |-> IF found = 0
                         THEN Append(tabs, [name |-> name, values |-> <<>>])
                         ELSE tabs,
              table  |-> IF found = 0 THEN Len(tabs) + 1 ELSE found,
              cur    |-> istr__skip(istr__ignore(c2, "\n"))]

root == [name |-> [buf |-> "root", off |-> 0, len |-> 4], values |-> <<>>]

\* ini__parse_internal up to its loop
ini__parse_internal(txt) ==
    /\ text' = txt
    /\ cur' = 0
    /\ table' = 0
    /\ IF txt.null
       THEN tables' = <<>> /\ opened' = 0 /\ pc' = "done"
       ELSE tables' = <<root>> /\ opened' = 1 /\ pc' = "top"
    /\ UNCHANGED <<input, options, result>>

\* fp before fopen: handle is "none", then "NULL" or "FILE"; read is what
\* fread did ("none", "short", "full"); fclose counts the calls of fclose(fp)
NoFile == [handle |-> "none", read |-> "none", fclose |-> 0]

\* ini__read_whole_file(fp, &filelen) on a file holding the bytes file;
\* complete says that fread returned len.  fclose is the number of times
\* it closes fp
ini__read_whole_file(handle, file, complete) ==
    IF handle = "NULL"
    THEN [buf |-> [null |-> TRUE, data |-> <<>>], read |-> "none", fclose |-> 0]
    ELSE IF ~complete
    THEN [buf |-> [null |-> TRUE, data |-> <<>>], read |-> "short", fclose |-> 1]
    ELSE [buf |-> [null |-> FALSE, data |-> file \o <<NUL>>],
          read |-> "full", fclose |-> 0]

\* ini_parse up to the loop of ini__parse_internal.  The file system
\* decides whether fopen succeeds and whether fread is complete (a file
\* without bytes cannot be read short).  fclose(NULL) and a second
\* fclose(fp) are undefined: the call either ends the program or returns
ini_parse ==
    /\ pc = "start"
    /\ \E filename \in {"NULL", "path"}, exists \in BOOLEAN,
          complete \in BOOLEAN, returns \in BOOLEAN :
          IF filename = "NULL"
          THEN /\ ini__parse_internal([null |-> TRUE, data |-> <<>>])
               /\ UNCHANGED fp
          ELSE LET handle == IF exists THEN "FILE" ELSE "NULL"
                   r      == ini__read_whole_file(handle, input,
                                                  complete \/ input = <<>>)
                   closed == r.fclose + 1
               IN  /\ fp' = [handle |-> handle, read |-> r.read, fclose |-> closed]
                   /\ IF (handle = "NULL" \/ closed > 1) /\ ~returns
                      THEN /\ pc' = "crashed"
                           /\ UNCHANGED <<input, options, text, tables, cur,
                                          table, result, opened>>
                      ELSE ini__parse_internal(r.buf)

\* ctx is the document the parse returned
ini_is_valid == ~text.null

ini_parse_buf ==
    /\ pc = "start"
    /\ ini__parse_internal(ini__strdup(input, Len(input)))
    /\ UNCHANGED fp

ini_parse_str ==
    /\ pc = "start"
    /\ ini__parse_internal(ini__strdup(input, strlen(input)))
    /\ UNCHANGED fp

\* one turn of the loop of ini__parse_internal, case '['
TopTable ==
    /\ pc = "top"
    /\ ~istr__is_finished(cur)
    /\ peek(cur) = "["
    /\ \E r \in {ini__add_table(tables, cur)} :
           /\ tables' = r.tables
           /\ table' = r.table
           /\ IF r.opened
              THEN cur' = r.cur /\ pc' = "body" /\ opened' = r.table
              ELSE cur' = istr__skip_whitespace(r.cur) /\ pc' = "top"
                   /\ UNCHANGED opened
    /\ UNCHANGED <<input, options, text, result, fp>>

\* one turn of the loop of ini__parse_internal, case '#' / ';'
TopComment ==
    /\ pc = "top"
    /\ ~istr__is_finished(cur)
    /\ peek(cur) \in {"#", ";"}
    /\ cur' = istr__skip_whitespace(istr__ignore(cur, "\n"))
    /\ UNCHANGED <<input, options, text, tables, table, pc, result, opened, fp>>

\* one turn of the loop of ini__parse_internal, default case: ini.tables is
\* the address of the first table
TopValue ==
    /\ pc = "top"
    /\ ~istr__is_finished(cur)
    /\ peek(cur) \notin {"[", "#", ";"}
    /\ \E r \in {ini__add_value(tables, 1, cur)} :
           /\ tables' = r.tables
           /\ cur' = istr__skip_whitespace(r.cur)
    /\ UNCHANGED <<input, options, text, table, pc, result, opened, fp>>

\* the loop of ini__parse_internal ends
ParseReturn ==
    /\ pc = "top"
    /\ istr__is_finished(cur)
    /\ pc' = "done"
    /\ UNCHANGED <<input, options, text, tables, cur, table, result, opened, fp>>

\* one turn of the body loop of ini__add_table, case '#' / ';'
BodyComment ==
    /\ pc = "body"
    /\ ~istr__is_finished(cur)
    /\ peek(cur) \in {"#", ";"}
    /\ cur' = istr__ignore(cur, "\n")
    /\ UNCHANGED <<input, options, text, tables, table, pc, result, opened, fp>>

\* one turn of the body loop of ini__add_table, default case
BodyValue ==
    /\ pc = "body"
    /\ ~istr__is_finished(cur)
    /\ peek(cur) \notin {"\n", "\r", "#", ";"}
    /\ \E r \in {ini__add_value(tables, table, cur)} :
           /\ tables' = r.tables
           /\ cur' = r.cur
    /\ UNCHANGED <<input, options, text, table, pc, result, opened, fp>>

\* ini__add_table returns (blank line or end of input) and the loop of
\* ini__parse_internal skips the whitespace that follows
BodyReturn ==
    /\ pc = "body"
    /\ IF istr__is_finished(cur) THEN TRUE ELSE peek(cur) \in {"\n", "\r"}
    /\ cur' = istr__skip_whitespace(cur)
    /\ table' = 0
    /\ pc' = "top"
    /\ UNCHANGED <<input, options, text, tables, result, opened, fp>>

----------------------------------------------------------------------------
(* Calls on the parsed document *)

LookupNames == {INI_ROOT, "x", "b"}
LookupKeys == {"a", "b", "empty"}

GetTable ==
    /\ pc = "done"
    /\ result.op = "none"
    /\ \E name \in LookupNames :
          result' = [op |-> "ini_get_table", name |-> name,
                     ret |-> ini_get_table(tables, name)]
    /\ UNCHANGED <<input, options, text, tables, cur, table, pc, opened, fp>>

Get ==
    /\ pc = "done"
    /\ result.op = "none"
    /\ \E ctx \in 0..Len(tables), key \in LookupKeys :
          result' = [op |-> "ini_get", ctx |-> ctx, key |-> key,
                     ret |-> ini_get(tables, ctx, key)]
    /\ UNCHANGED <<input, options, text, tables, cur, table, pc, opened, fp>>

----------------------------------------------------------------------------
(* Typed accessors.  A value pointer is the index of the entry in the     *)
(* root table, 0 for NULL; a destination is [null, data], data holding    *)
(* the bytes of the caller's buffer, and oob collects the offsets written *)
(* at or after the end of that buffer.                                    *)

INI_INVALID_ARGS == -1
INI_BUFFER_TOO_SMALL == -2

\* a byte the program never wrote
Unset == "?"

\* dest[i] = c
Store(dest, i, c) ==
    IF i < Len(dest.data)
    THEN [dest EXCEPT !.data[i + 1] = c]
    ELSE [dest EXCEPT !.oob = @ \cup {i}]

\* the loop of ini__rem_escaped and the two stores after it; src is value.buf
\* as the loop reads it: the destination itself when aliased (ini_as_str)
RECURSIVE ini__rem_escaped_loop(_, _, _, _, _, _)
ini__rem_escaped_loop(value, aliased, dest, buflen, src_pos, dest_pos) ==
    LET src(i) == IF aliased THEN dest.data[i + 1] ELSE at(value, i)
        len    == value.len - 1
    IN  IF src_pos < len
        THEN IF dest_pos >= buflen
             THEN [ret |-> INI_BUFFER_TOO_SMALL, dest |-> dest]
             ELSE LET sp == IF src(src_pos) = "\\" /\ IsEscapable(src(src_pos + 1))
                            THEN src_pos + 1 ELSE src_pos
                  IN  ini__rem_escaped_loop(value, aliased,
                                            Store(dest, dest_pos, src(sp)),
                                            buflen, sp + 1, dest_pos + 1)
        ELSE IF dest_pos >= buflen
             THEN [ret |-> INI_BUFFER_TOO_SMALL, dest |-> dest]
             ELSE [ret  |-> dest_pos + 1,
                   dest |-> Store(Store(dest, dest_pos, src(len)), dest_pos + 1, NUL)]

ini__rem_escaped(value, aliased, dest, buflen) ==
    IF dest.null \/ buflen = 0 THEN [ret |-> INI_INVALID_ARGS, dest |-> dest]
    ELSE IF strv__is_empty(value) THEN [ret |-> 0, dest |-> Store(dest, 0, NUL)]
    ELSE ini__rem_escaped_loop(value, aliased, dest, buflen, 0, 0)

\* memcpy(buf, strv.buf, strv.len), byte by byte
RECURSIVE memcpy(_, _, _)
memcpy(dest, view, i) ==
    IF i >= view.len THEN dest ELSE memcpy(Store(dest, i, at(view, i)), view, i + 1)

\* value is an entry index of the root table (0 for NULL)
ini_to_str(value, dest, buflen, remove_escape_chars) ==
    IF value = 0 \/ dest.null \/ buflen = 0
    THEN [ret |-> INI_INVALID_ARGS, dest |-> dest]
    ELSE LET v == tables[1].values[value].value
         IN  IF strv__is_empty(v) THEN [ret |-> 0, dest |-> Store(dest, 0, NUL)]
             ELSE LET strv == strv__trim(v)
                  IN  IF remove_escape_chars
                      THEN ini__rem_escaped(strv, FALSE, dest, buflen)
                      ELSE IF buflen < strv.len + 1
                           THEN [ret |-> INI_BUFFER_TOO_SMALL, dest |-> dest]
                           ELSE [ret  |-> strv.len,
                                 dest |-> Store(memcpy(dest, strv, 0), strv.len, NUL)]

\* the string returned: [null, data, oob], data the whole allocation
ini_as_str(value, remove_escape_chars) ==
    IF value = 0 THEN [null |-> TRUE, data |-> <<>>, oob |-> {}]
    ELSE LET val_strv == strv__trim(tables[1].values[value].value)
             dup      == ini__strdup(SubSeq(text.data, val_strv.off + 1, Len(text.data)),
                                     val_strv.len)
             str      == [null |-> dup.null, data |-> dup.data, oob |-> {}]
         IN  IF remove_escape_chars
             THEN ini__rem_escaped(val_strv, TRUE, str, val_strv.len + 1).dest
             ELSE str

\* the loop of ini_as_array and the push after it
RECURSIVE ini_as_array_loop(_, _, _, _, _)
ini_as_array_loop(v, delim, i, start, out) ==
    IF i < v.len
    THEN IF at(v, i) = delim
         THEN LET arr_val == strv__trim(strv__sub(v, start, i))
              IN  ini_as_array_loop(v, delim, i + 1, i + 1,
                      IF ~strv__is_empty(arr_val) THEN Append(out, arr_val) ELSE out)
         ELSE ini_as_array_loop(v, delim, i + 1, start, out)
    ELSE LET last == strv__trim(strv__sub(v, start, v.len))
         IN  IF ~strv__is_empty(last) THEN Append(out, last) ELSE out

\* the vector returned; the NULL vector is the empty sequence
ini_as_array(value, delim) ==
    IF value = 0 THEN <<>>
    ELSE LET v == tables[1].values[value].value
         IN  IF strv__is_empty(v) THEN <<>>
             ELSE ini_as_array_loop(v, IF delim = NUL THEN " " ELSE delim, 0, 0, <<>>)

\* the loop of ini_to_array and the store after it: arr is what was stored
RECURSIVE ini_to_array_loop(_, _, _, _, _, _)
ini_to_array_loop(strv, delim, len, i, start, arr) ==
    IF i < strv.len
    THEN IF at(strv, i) = delim
         THEN LET arr_val == strv__trim(strv__sub(strv, start, i))
              IN  IF ~strv__is_empty(arr_val)
                  THEN IF Len(arr) >= len
                       THEN [ret |-> INI_BUFFER_TOO_SMALL, arr |-> arr]
                       ELSE ini_to_array_loop(strv, delim, len, i + 1, i + 1,
                                              Append(arr, arr_val))
                  ELSE ini_to_array_loop(strv, delim, len, i + 1, i + 1, arr)
         ELSE ini_to_array_loop(strv, delim, len, i + 1, start, arr)
    ELSE LET last == strv__trim(strv__sub(strv, start, strv.len))
         IN  IF ~strv__is_empty(last)
             THEN IF Len(arr) >= len
                  THEN [ret |-> INI_BUFFER_TOO_SMALL, arr |-> arr]
                  ELSE [ret |-> Len(arr) + 1, arr |-> Append(arr, last)]
             ELSE [ret |-> Len(arr), arr |-> arr]

\* arr_null: the caller passed a NULL array
ini_to_array(value, arr_null, len, delim) ==
    IF value = 0 \/ arr_null \/ len = 0 THEN [ret |-> INI_INVALID_ARGS, arr |-> <<>>]
    ELSE LET v == tables[1].values[value].value
         IN  IF strv__is_empty(v) THEN [ret |-> 0, arr |-> <<>>]
             ELSE ini_to_array_loop(v, IF delim = NUL THEN " " ELSE delim, len, 0, 0, <<>>)

\* the keys the caller asks the root table for: one that is there, one that
\* is not
ValueKeys == {"k", "a"}
Delims == {NUL, ","}

\* the caller's destination: NULL, or buflen bytes it never wrote
Destinations ==
    {[null |-> TRUE, data |-> <<>>, oob |-> {}]}
    \cup {[null |-> FALSE, data |-> [i \in 1..n |-> Unset], oob |-> {}] : n \in 0..MaxBufLen}

\* buflen as the caller states it: the size of the buffer it passes
SizeOf(dest) == IF dest.null THEN 1 ELSE Len(dest.data)

ToStr ==
    /\ pc = "done"
    /\ result.op = "none"
    /\ \E key \in ValueKeys, dest \in Destinations, rem \in BOOLEAN :
          LET value == ini_get(tables, ini_get_table(tables, INI_ROOT), key)
              r     == ini_to_str(value, dest, SizeOf(dest), rem)
          IN  result' = [op |-> "ini_to_str", value |-> value, buf |-> dest,
                         buflen |-> SizeOf(dest), rem |-> rem,
                         ret |-> r.ret, dest |-> r.dest]
    /\ UNCHANGED <<input, options, text, tables, cur, table, pc, opened, fp>>

AsStr ==
    /\ pc = "done"
    /\ result.op = "none"
    /\ \E key \in ValueKeys, rem \in BOOLEAN :
          LET value == ini_get(tables, ini_get_table(tables, INI_ROOT), key)
          IN  result' = [op |-> "ini_as_str", value |-> value, rem |-> rem,
                         ret |-> ini_as_str(value, rem)]
    /\ UNCHANGED <<input, options, text, tables, cur, table, pc, opened, fp>>

AsArray ==
    /\ pc = "done"
    /\ result.op = "none"
    /\ \E key \in ValueKeys, delim \in Delims :
          LET value == ini_get(tables, ini_get_table(tables, INI_ROOT), key)
          IN  result' = [op |-> "ini_as_array", value |-> value, delim |-> delim,
                         ret |-> ini_as_array(value, delim)]
    /\ UNCHANGED <<input, options, text, tables, cur, table, pc, opened, fp>>

ToArray ==
    /\ pc = "done"
    /\ result.op = "none"
    /\ \E key \in ValueKeys, delim \in Delims, arr_null \in BOOLEAN, len \in 0..MaxArrLen :
          LET value == ini_get(tables, ini_get_table(tables, INI_ROOT), key)
              r     == ini_to_array(value, arr_null, len, delim)
          IN  result' = [op |-> "ini_to_array", value |-> value, delim |-> delim,
                         arr_null |-> arr_null, len |-> len,
                         ret |-> r.ret, arr |-> r.arr]
    /\ UNCHANGED <<input, options, text, tables, cur, table, pc, opened, fp>>

----------------------------------------------------------------------------
(* Documents *)

\* the pieces documents are put together from: a table header, two lines
\* with the same key, a padded line with an escaped and an unescaped comment
\* marker, a comment line, a line without divider and a blank line
Fragments ==
    { <<"[", "x", "]", "\n">>,
      <<"a", "=", "1", "\n">>,
      <<"a", "=", "2", "\n">>,
      <<" ", "b", " ", "=", " ", "1", "\\", "#", "2", " ", ";", "c", "\n">>,
      <<"#", "c", "\n">>,
      <<"z", "z", "\n">>,
      <<"\n">> }

RECURSIVE Documents(_)
Documents(n) ==
    IF n = 0 THEN {<<>>}
    ELSE LET shorter == Documents(n - 1)
         IN  shorter \cup {d \o f : d \in shorter, f \in Fragments}

\* the bytes value texts are put together from
ValueBytes == {"a", " ", ",", "#", "\\"}

RECURSIVE Texts(_)
Texts(n) ==
    IF n = 0 THEN {<<>>}
    ELSE LET shorter == Texts(n - 1)
         IN  shorter \cup {t \o <<c>> : t \in shorter, c \in ValueBytes}

\* one-line documents k=<value text>
ValueDocuments == {<<"k", "=">> \o t : t \in Texts(MaxValLen)}

CallerOptions ==
    [null : {FALSE},
     merge_duplicate_tables : BOOLEAN,
     override_duplicate_keys : BOOLEAN,
     key_value_divider : {NUL}]

Start ==
    /\ text = [null |-> TRUE, data |-> <<>>]
    /\ tables = <<>>
    /\ cur = 0
    /\ table = 0
    /\ pc = "start"
    /\ result = [op |-> "none"]
    /\ opened = 0
    /\ fp = NoFile

Init ==
    /\ input \in Documents(MaxFrags) \cup ValueDocuments
    /\ options \in CallerOptions \cup {NoOptions}
    /\ Start

Next ==
    \/ ini_parse_buf
    \/ ini_parse_str
    \/ TopTable
    \/ TopComment
    \/ TopValue
    \/ ParseReturn
    \/ BodyComment
    \/ BodyValue
    \/ BodyReturn
    \/ GetTable
    \/ Get

Spec == Init /\ [][Next]_vars

\* the accessors, on the value of a one-line document parsed with the
\* default options
InitAccessors ==
    /\ input \in ValueDocuments
    /\ options = NoOptions
    /\ Start

NextAccessors ==
    \/ ini_parse_str
    \/ TopValue
    \/ ParseReturn
    \/ ToStr
    \/ AsStr
    \/ AsArray
    \/ ToArray

SpecAccessors == InitAccessors /\ [][NextAccessors]_vars

\* the pieces the documents of the scanner specification are put together
\* from: whole lines, a line that ends without a line break, and single
\* bytes that leave a header or a line unfinished
ScanFragments ==
    { <<"[", "x", "]", "\n">>,
      <<"a", "=", "1", "\n">>,
      <<"#", "c", "\n">>,
      <<"a", ":", "b">>,
      <<"[">>,
      <<"\n">>,
      <<" ">> }

RECURSIVE ScanDocuments(_)
ScanDocuments(n) ==
    IF n = 0 THEN {<<>>}
    ELSE LET shorter == ScanDocuments(n - 1)
         IN  shorter \cup {d \o f : d \in shorter, f \in ScanFragments}

\* dividers: unset (the default '='), a byte of its own and the line break
ScanDividers == {NUL, ":", "\n"}

ScanOptions ==
    [null : {FALSE},
     merge_duplicate_tables : BOOLEAN,
     override_duplicate_keys : BOOLEAN,
     key_value_divider : ScanDividers]

InitScanner ==
    /\ input \in ScanDocuments(MaxScanFrags)
    /\ options \in ScanOptions \cup {NoOptions}
    /\ Start

NextScanner ==
    \/ ini_parse_buf
    \/ ini_parse_str
    \/ TopTable
    \/ TopComment
    \/ TopValue
    \/ ParseReturn
    \/ BodyComment
    \/ BodyValue
    \/ BodyReturn

\* ini_parse on a file that holds the bytes of input
InitFile ==
    /\ input \in ScanDocuments(MaxScanFrags)
    /\ options = NoOptions
    /\ Start

NextFile ==
    \/ ini_parse
    \/ TopTable
    \/ TopComment
    \/ TopValue
    \/ ParseReturn
    \/ BodyComment
    \/ BodyValue
    \/ BodyReturn

SpecFile == InitFile /\ [][NextFile]_vars

\* the parser is one sequential call: it keeps running until it returns
SpecScanner == InitScanner /\ [][NextScanner]_vars /\ WF_vars(NextScanner)

----------------------------------------------------------------------------
(* Vocabulary of the properties *)

\* the byte of the document at offset i
byte(i) == text.data[i + 1]

IsMarker(c) == c \in {"#", ";"}

EntryBytes(e) == [key |-> bytes(e.key), value |-> bytes(e.value)]

\* the entries of table t, as byte strings
TableBytes(t) ==
    [i \in 1..Len(tables[t].values) |-> EntryBytes(tables[t].values[i])]

\* the tables whose name is the byte string n
TablesNamed(n) == {t \in 1..Len(tables) : bytes(tables[t].name) = n}

\* the parser is about to hand the line at the cursor to ini__add_value
AtValueLine ==
    /\ pc \in {"top", "body"}
    /\ ~istr__is_finished(cur)
    /\ pc = "top" => peek(cur) \notin {"[", "#", ";"}
    /\ pc = "body" => peek(cur) \notin {"\n", "\r", "#", ";"}

\* the key and the value of that line
Line == ini__add_value_scan(cur)

\* the entries of table t whose key has the bytes of key
Matches(t, key) ==
    {i \in 1..Len(tables[t].values) : bytes(tables[t].values[i].key) = key}

HeaderX == <<"[", "x", "]", "\n">>
NoDividerLine == <<"z", "z", "\n">>

\* plain key-value lines, with the key and the value each one states
KeyValueLines ==
    { [line |-> <<"a", "=", "1", "\n">>, key |-> <<"a">>, value |-> <<"1">>],
      [line |-> <<"a", "=", "2", "\n">>, key |-> <<"a">>, value |-> <<"2">>] }

Entry(l) == [key |-> l.key, value |-> l.value]

----------------------------------------------------------------------------
(* C1: a document with two headers of the same name, each followed        *)
(* directly by a key-value line, parses under default options into two    *)
(* tables of that name, in order, each holding the entry under its own    *)
(* header, and under merge_duplicate_tables into one table of that name   *)
(* holding both entries in input order.                                   *)
C1_DuplicateTables ==
    \A l1 \in KeyValueLines, l2 \in KeyValueLines :
        ( /\ pc = "done"
          /\ ~opts.override_duplicate_keys
          /\ input = HeaderX \o l1.line \o HeaderX \o l2.line )
        => IF opts.merge_duplicate_tables
           THEN /\ TablesNamed(<<"x">>) = {2}
                /\ TableBytes(2) = <<Entry(l1), Entry(l2)>>
           ELSE /\ TablesNamed(<<"x">>) = {2, 3}
                /\ TableBytes(2) = <<Entry(l1)>>
                /\ TableBytes(3) = <<Entry(l2)>>

----------------------------------------------------------------------------
(* C2: without override_duplicate_keys every accepted key-value line      *)
(* appends one new entry to a table and changes nothing else, also when   *)
(* the table already holds an equal key; ini_get returns the first entry  *)
(* in insertion order whose key has the bytes looked up, and NULL when    *)
(* there is none or the table is NULL.                                    *)
C2_LineAppends ==
    (AtValueLine /\ Line.accepted /\ ~opts.override_duplicate_keys)
    => \E t \in 1..Len(tables) :
          tables' = [tables EXCEPT ![t].values =
                        Append(@, [key |-> Line.key, value |-> Line.value])]

C2_GetFirst ==
    result.op = "ini_get"
    => IF result.ctx = 0 THEN result.ret = 0
       ELSE LET M == Matches(result.ctx, Literals[result.key])
            IN  IF M = {} THEN result.ret = 0
                ELSE result.ret \in M /\ \A j \in M : result.ret <= j

C2_DuplicateKeysDefault == [][C2_LineAppends]_vars /\ []C2_GetFirst

\* ini_get has returned the first of two entries with the same key and
\* different values
C2_Witness ==
    /\ result.op = "ini_get"
    /\ ~opts.override_duplicate_keys
    /\ result.ret # 0
    /\ \E j \in Matches(result.ctx, Literals[result.key]) :
          /\ j > result.ret
          /\ TableBytes(result.ctx)[j].value # TableBytes(result.ctx)[result.ret].value

----------------------------------------------------------------------------
(* C3: with override_duplicate_keys no table ever holds two entries with  *)
(* byte-equal keys; a line whose key a table already holds replaces the   *)
(* value of that entry in place and changes nothing else (count and order *)
(* stay), a line with a new key appends.                                  *)
C3_NoDuplicateKeys ==
    opts.override_duplicate_keys
    => \A t \in 1..Len(tables) :
          \A i, j \in 1..Len(tables[t].values) :
              i # j => bytes(tables[t].values[i].key) # bytes(tables[t].values[j].key)

C3_LineOverrides ==
    (AtValueLine /\ Line.accepted /\ opts.override_duplicate_keys)
    => \E t \in 1..Len(tables) :
          LET M == Matches(t, bytes(Line.key))
          IN  IF M = {}
              THEN tables' = [tables EXCEPT ![t].values =
                                 Append(@, [key |-> Line.key, value |-> Line.value])]
              ELSE \E i \in M :
                      tables' = [tables EXCEPT ![t].values[i].value = Line.value]

C3_OverrideDuplicateKeys == []C3_NoDuplicateKeys /\ [][C3_LineOverrides]_vars

\* an entry holds a value that lies later in the document than the value of
\* the entry after it: it was replaced after that entry was appended
C3_Witness ==
    /\ pc = "done"
    /\ opts.override_duplicate_keys
    /\ \E t \in 1..Len(tables) :
          \E i \in 1..Len(tables[t].values) - 1 :
              tables[t].values[i].value.off > tables[t].values[i + 1].value.off

----------------------------------------------------------------------------
(* C4: after every parse, also of the empty input, the table sequence is  *)
(* not empty, its first table is the root table, and ini_get_table with   *)
(* INI_ROOT returns that table.                                           *)
C4_RootAlwaysFirst ==
    pc # "start"
    => /\ Len(tables) >= 1
       /\ tables[1].name = root.name
       /\ ini_get_table(tables, INI_ROOT) = 1

----------------------------------------------------------------------------
(* C5: after parsing, no stored key, value or table name starts or ends   *)
(* with a whitespace byte.                                                *)
Trimmed(view) ==
    view.len = 0 \/ (~isspace(at(view, 0)) /\ ~isspace(at(view, view.len - 1)))

C5_StoredViewsTrimmed ==
    pc = "done"
    => \A t \in 1..Len(tables) :
          /\ Trimmed(tables[t].name)
          /\ \A i \in 1..Len(tables[t].values) :
                /\ Trimmed(tables[t].values[i].key)
                /\ Trimmed(tables[t].values[i].value)

----------------------------------------------------------------------------
(* C6: every stored value starts in the value text of its line (after a   *)
(* divider and whitespace only), holds no newline and no comment marker   *)
(* other than ones directly after a backslash, and ends directly before   *)
(* the first marker that does not follow a backslash, or, when the line   *)
(* has none, where only whitespace is left of the line.                   *)
LineEnd(e) ==
    LET N == {i \in e..(textlen - 1) : byte(i) = "\n"}
    IN  IF N = {} THEN textlen ELSE CHOOSE i \in N : \A j \in N : i <= j

ValueCutAtComment(v) ==
    LET s == v.off
        e == v.off + v.len
    IN  /\ \/ s = textlen
           \/ \E d \in 0..(s - 1) :
                 /\ byte(d) = opts.key_value_divider
                 /\ \A i \in (d + 1)..(s - 1) : isspace(byte(i)) /\ byte(i) # "\n"
        /\ \A i \in s..(e - 1) :
              /\ byte(i) # "\n"
              /\ IsMarker(byte(i)) => (i > s /\ byte(i - 1) = "\\")
        /\ \/ /\ e < textlen
              /\ IsMarker(byte(e))
              /\ ~(e > s /\ byte(e - 1) = "\\")
           \/ \A i \in e..(LineEnd(e) - 1) : isspace(byte(i))

C6_InlineComment ==
    \A t \in 1..Len(tables) :
        \A i \in 1..Len(tables[t].values) :
            ValueCutAtComment(tables[t].values[i].value)

\* a stored value keeps an escaped marker and ends before an unescaped one
C6_Witness ==
    \E t \in 1..Len(tables) :
        \E i \in 1..Len(tables[t].values) :
            LET v == tables[t].values[i].value
            IN  /\ \E j \in 1..(v.len - 1) :
                      IsMarker(at(v, j)) /\ at(v, j - 1) = "\\"
                /\ v.off + v.len < textlen
                /\ IsMarker(byte(v.off + v.len))

----------------------------------------------------------------------------
(* C10: a line without divider is skipped: the document parses as it      *)
(* would without that line, so the key-value line after it becomes an     *)
(* entry with its own key and value, in root or in the table whose header *)
(* follows the malformed line, and the malformed line adds no entry.      *)
C10_NoDividerLineSkipped ==
    \A l \in KeyValueLines :
        /\ (pc = "done" /\ input = NoDividerLine \o l.line)
           => /\ Len(tables) = 1
              /\ TableBytes(1) = <<Entry(l)>>
        /\ (pc = "done" /\ input = NoDividerLine \o HeaderX \o l.line)
           => /\ Len(tables) = 2
              /\ TableBytes(1) = <<>>
              /\ TablesNamed(<<"x">>) = {2}
              /\ TableBytes(2) = <<Entry(l)>>

----------------------------------------------------------------------------
(* Vocabulary of the accessor properties *)

\* the value the accessor was called on, as bytes (none for NULL)
ValueOf(value) == IF value = 0 THEN <<>> ELSE bytes(tables[1].values[value].value)

\* what trimming leaves of it, as ini_to_str and ini_as_str trim it
TrimmedValueOf(value) ==
    IF value = 0 THEN <<>> ELSE bytes(strv__trim(tables[1].values[value].value))

\* the C string a buffer holds: its bytes before the first terminator
RECURSIVE CString(_)
CString(data) ==
    IF data = <<>> \/ Head(data) = NUL THEN <<>>
    ELSE <<Head(data)>> \o CString(Tail(data))

\* s with every backslash that directly precedes a marker left out
RECURSIVE Unescaped(_)
Unescaped(s) ==
    IF s = <<>> THEN <<>>
    ELSE IF Len(s) >= 2 /\ s[1] = "\\" /\ IsMarker(s[2])
         THEN <<s[2]>> \o Unescaped(SubSeq(s, 3, Len(s)))
         ELSE <<s[1]>> \o Unescaped(Tail(s))

\* the number of backslashes that directly precede a marker
EscapesIn(s) ==
    Cardinality({i \in 1..(Len(s) - 1) : s[i] = "\\" /\ IsMarker(s[i + 1])})

RECURSIVE StripLeft(_)
StripLeft(s) == IF s # <<>> /\ isspace(Head(s)) THEN StripLeft(Tail(s)) ELSE s

RECURSIVE StripRight(_)
StripRight(s) ==
    IF s # <<>> /\ isspace(s[Len(s)]) THEN StripRight(SubSeq(s, 1, Len(s) - 1)) ELSE s

Stripped(s) == StripRight(StripLeft(s))

\* the pieces of s between the occurrences of d
RECURSIVE Segments(_, _)
Segments(s, d) ==
    LET D == {i \in 1..Len(s) : s[i] = d}
    IN  IF D = {} THEN <<s>>
        ELSE LET i == CHOOSE i \in D : \A j \in D : i <= j
             IN  <<SubSeq(s, 1, i - 1)>> \o Segments(SubSeq(s, i + 1, Len(s)), d)

NotEmpty(s) == s # <<>>

\* the trimmed, non-empty pieces of s
Elements(s, delim) ==
    LET d    == IF delim = NUL THEN " " ELSE delim
        segs == Segments(s, d)
    IN  SelectSeq([i \in 1..Len(segs) |-> Stripped(segs[i])], NotEmpty)

ViewBytes(views) == [i \in 1..Len(views) |-> bytes(views[i])]

----------------------------------------------------------------------------
(* C7: ini_to_str writes no byte at or after buflen; with a NULL value, a *)
(* NULL buffer or buflen 0 it returns INI_INVALID_ARGS and writes nothing;*)
(* when the trimmed value (escapes removed if asked) and its terminator   *)
(* do not fit it returns INI_BUFFER_TOO_SMALL, else the length of what it *)
(* wrote, with the terminator at that index.                              *)
C7_ToStrBounded ==
    result.op = "ini_to_str"
    => /\ result.dest.oob = {}
       /\ IF result.value = 0 \/ result.buf.null \/ result.buflen = 0
          THEN result.ret = INI_INVALID_ARGS /\ result.dest = result.buf
          ELSE LET trimmed == TrimmedValueOf(result.value)
                   wanted  == IF result.rem THEN Unescaped(trimmed) ELSE trimmed
               IN  IF Len(wanted) + 1 > result.buflen
                   THEN result.ret = INI_BUFFER_TOO_SMALL
                   ELSE /\ result.ret = Len(wanted)
                        /\ result.ret < result.buflen
                        /\ result.dest.data[result.ret + 1] = NUL

----------------------------------------------------------------------------
(* C8: with escape removal, ini_as_str and (when it succeeds) ini_to_str  *)
(* produce the trimmed value without the backslashes that directly        *)
(* precede a marker, every other byte once and in order, and the length   *)
(* produced is the trimmed length less the number of those backslashes.   *)
C8_EscapeRemoval ==
    LET trimmed  == TrimmedValueOf(result.value)
        produced == IF result.op = "ini_as_str"
                    THEN CString(result.ret.data)
                    ELSE CString(result.dest.data)
    IN  /\ (result.op = "ini_as_str" /\ result.rem /\ trimmed # <<>>)
           => /\ produced = Unescaped(trimmed)
              /\ Len(produced) = Len(trimmed) - EscapesIn(trimmed)
        /\ (result.op = "ini_to_str" /\ result.rem /\ trimmed # <<>> /\ result.ret >= 0)
           => /\ produced = Unescaped(trimmed)
              /\ result.ret = Len(trimmed) - EscapesIn(trimmed)

----------------------------------------------------------------------------
(* C9: ini_as_array returns, in order, the trimmed non-empty pieces of    *)
(* the value between the delimiters (none for a NULL or empty value), so  *)
(* no element is empty or all whitespace; ini_to_array with room for them *)
(* stores the same elements and returns their count.                      *)
C9_ArraySplit ==
    LET wanted == Elements(ValueOf(result.value), result.delim)
    IN  /\ result.op = "ini_as_array"
           => /\ \A i \in 1..Len(result.ret) :
                    \E j \in 1..result.ret[i].len : ~isspace(at(result.ret[i], j - 1))
              /\ ViewBytes(result.ret) = wanted
        /\ ( /\ result.op = "ini_to_array"
             /\ result.value # 0
             /\ ~result.arr_null
             /\ result.len > 0
             /\ result.len >= Len(wanted) )
           => /\ result.ret = Len(wanted)
              /\ ViewBytes(result.arr) = wanted

----------------------------------------------------------------------------
(* C11: a comment line inside a table body is discarded and does not end  *)
(* the body: for a header, a key-value line, a comment line and a second  *)
(* key-value line, the table of the header holds both entries in input    *)
(* order and the root table holds none.                                   *)
CommentLine == <<"#", "c", "\n">>

C11_CommentKeepsBody ==
    \A l1 \in KeyValueLines, l2 \in KeyValueLines :
        ( /\ pc = "done"
          /\ ~opts.override_duplicate_keys
          /\ input = HeaderX \o l1.line \o CommentLine \o l2.line )
        => /\ Len(tables) = 2
           /\ TableBytes(1) = <<>>
           /\ TablesNamed(<<"x">>) = {2}
           /\ TableBytes(2) = <<Entry(l1), Entry(l2)>>

----------------------------------------------------------------------------
(* C12: a key-value line dispatched by the top-level loop is stored in    *)
(* the table the last accepted header opened (the root table while no     *)
(* header has been accepted) and leaves every other table as it was, also *)
(* when a blank line has ended the body of that table.                    *)
TopLevelLine == pc = "top" /\ AtValueLine /\ Line.accepted

C12_LineGoesToOpened ==
    TopLevelLine
    => /\ Len(tables') = Len(tables)
       /\ \A t \in 1..Len(tables) : t # opened => tables'[t] = tables[t]
       /\ \E i \in 1..Len(tables'[opened].values) :
             /\ bytes(tables'[opened].values[i].key) = bytes(Line.key)
             /\ tables'[opened].values[i].value = Line.value

C12_TopLevelTarget == [][C12_LineGoesToOpened]_vars

----------------------------------------------------------------------------
(* The offsets of the text the scanner and the parser read *)

\* the offsets a view into the text covers
ViewOffsets(view) ==
    IF view.buf = "text" THEN view.off..(view.off + view.len - 1) ELSE {}

\* istr__ignore: *in->cur is read while in->cur < end
RECURSIVE istr__ignore_reads(_, _)
istr__ignore_reads(c, delim) ==
    IF c < textlen
    THEN {c} \cup (IF peek(c) # delim THEN istr__ignore_reads(c + 1, delim) ELSE {})
    ELSE {}

\* istr__skip_whitespace: *in->cur is read while in->cur < end
RECURSIVE istr__skip_whitespace_reads(_)
istr__skip_whitespace_reads(c) ==
    IF c < textlen
    THEN {c} \cup (IF isspace(peek(c)) THEN istr__skip_whitespace_reads(c + 1) ELSE {})
    ELSE {}

\* strv__trim: view.buf[i] is read up to the index each loop stops at
strv__trim_reads(view) ==
    IF strv__is_empty(view) THEN {}
    ELSE LET l    == strv__trim_left(view, 0)
             left == {view.off + i : i \in {j \in 0..l : j < view.len}}
         IN  IF l = view.len THEN left
             ELSE left \cup {view.off + i :
                               i \in strv__trim_right(view, view.len - 1)..(view.len - 1)}

\* the "find inline comments" loop: val.buf[i] up to the marker it stops at
ini__inline_comment_reads(val) ==
    {val.off + i : i \in {j \in 0..ini__inline_comment(val, 0) : j < val.len}}

\* strv__cmp: memcmp reads both views when the lengths are equal
strv__cmp_reads(a, b) ==
    IF a.len = b.len THEN ViewOffsets(a) \cup ViewOffsets(b) ELSE {}

\* ini__find_value: the keys compared up to the match
ini__find_value_reads(values, key) ==
    LET found == ini__find_value(values, key)
        last  == IF found = 0 THEN Len(values) ELSE found
    IN  IF strv__is_empty(key) THEN {}
        ELSE UNION {strv__cmp_reads(values[i].key, key) : i \in 1..last}

\* ini__find_table: the names compared up to the match
ini__find_table_reads(tabs, name) ==
    LET found == ini__find_table(tabs, name)
        last  == IF found = 0 THEN Len(tabs) ELSE found
    IN  IF strv__is_empty(name) THEN {}
        ELSE UNION {strv__cmp_reads(tabs[i].name, name) : i \in 1..last}

\* ini__add_value on the entries values, with in at c
ini__add_value_reads(values, c) ==
    LET k   == istr__get_view(c, opts.key_value_divider)
        key == strv__trim(k.view)
        c1  == istr__skip(k.cur)
        v   == istr__get_view(c1, "\n")
    IN  istr__ignore_reads(c, opts.key_value_divider)
        \cup strv__trim_reads(k.view)
        \cup istr__ignore_reads(c1, "\n")
        \cup strv__trim_reads(v.view)
        \cup (IF strv__is_empty(key) THEN {}
              ELSE ini__inline_comment_reads(strv__trim(v.view))
                   \cup (IF opts.override_duplicate_keys
                         THEN ini__find_value_reads(values, key) ELSE {}))

\* ini__add_table up to its body loop, with in at c
ini__add_table_reads(tabs, c) ==
    LET c1 == istr__skip(c)
        n  == istr__get_view(c1, "]")
        c2 == istr__skip(n.cur)
    IN  istr__ignore_reads(c1, "]")
        \cup (IF strv__is_empty(n.view) THEN {}
              ELSE (IF opts.merge_duplicate_tables
                    THEN ini__find_table_reads(tabs, n.view) ELSE {})
                   \cup istr__ignore_reads(c2, "\n"))

\* the offsets the next turn of the top-level loop reads
TopReads ==
    IF istr__is_finished(cur) THEN {}
    ELSE {cur} \cup
         (IF peek(cur) = "["
          THEN LET r == ini__add_table(tables, cur)
               IN  ini__add_table_reads(tables, cur)
                   \cup (IF r.opened THEN {} ELSE istr__skip_whitespace_reads(r.cur))
          ELSE IF peek(cur) \in {"#", ";"}
          THEN istr__ignore_reads(cur, "\n")
               \cup istr__skip_whitespace_reads(istr__ignore(cur, "\n"))
          ELSE ini__add_value_reads(tables[1].values, cur)
               \cup istr__skip_whitespace_reads(ini__add_value_scan(cur).cur))

\* the offsets the next turn of the body loop reads (with the whitespace
\* skipped by the top-level loop when the body ends)
BodyReads ==
    IF istr__is_finished(cur) THEN istr__skip_whitespace_reads(cur)
    ELSE {cur} \cup
         (IF peek(cur) \in {"\n", "\r"} THEN istr__skip_whitespace_reads(cur)
          ELSE IF peek(cur) \in {"#", ";"} THEN istr__ignore_reads(cur, "\n")
          ELSE ini__add_value_reads(tables[table].values, cur))

Reads == IF pc = "top" THEN TopReads ELSE IF pc = "body" THEN BodyReads ELSE {}

----------------------------------------------------------------------------
(* C13: for every non-empty buffer and every option setting the parse     *)
(* returns; the cursor never moves back and stays within 0..length; every *)
(* turn of the top-level loop and every turn of the body loop that goes   *)
(* on with the body moves it forward by at least one byte; and every      *)
(* offset read lies below the length of the buffer.                       *)
C13_InBounds ==
    /\ cur \in 0..textlen
    /\ \A i \in Reads : i >= 0 /\ i < textlen

C13_Advances ==
    /\ cur' >= cur
    /\ (pc = "top" /\ ~istr__is_finished(cur)) => cur' > cur
    /\ (pc = "body" /\ pc' = "body") => cur' > cur

C13_Returns == input # <<>> => <>(pc = "done")

C13_SinglePass == []C13_InBounds /\ [][C13_Advances]_vars /\ C13_Returns

\* a document with a header and a body was parsed to its end with a
\* divider other than the default one, reading its last byte
C13_Witness ==
    /\ pc = "done"
    /\ cur = textlen
    /\ textlen > 0
    /\ opts.key_value_divider # "="
    /\ \E t \in 2..Len(tables) : Len(tables[t].values) > 0

----------------------------------------------------------------------------
(* C14: on every path through ini_parse fclose is never called on a NULL  *)
(* handle and never twice on the same handle, a handle that was opened is *)
(* closed once, and when the open or the read failed the document         *)
(* returned is invalid and has no tables.                                 *)
C14_FileClosedOnce ==
    /\ fp.handle = "NULL" => fp.fclose = 0
    /\ fp.handle = "FILE" => fp.fclose = 1
    /\ (pc = "done" /\ (fp.handle = "NULL" \/ fp.read = "short"))
       => ~ini_is_valid /\ tables = <<>>

====
